---- MODULE Spec2Model ----
(***************************************************************************)
(* Model of nav_sdk_ros2/autonomous.py: the GraphNavInterface navigation   *)
(* operations (power gate, poll loops, end-of-operation cleanup) and the   *)
(* NavROS2SDK action server (goal, cancel and execute callbacks under a    *)
(* reentrant callback group, each execution scoped by a LeaseKeepAlive).   *)
(*                                                                         *)
(* Two specifications share the robot and the GraphNavInterface fields:    *)
(*   SpecCli  one sequential caller invoking GraphNavInterface operations  *)
(*   Spec     the action server: NumGoals goal executions interleaved      *)
(***************************************************************************)
EXTENDS Integers, Sequences, FiniteSets, TLC

----------------------------------------------------------------------------
\* Bounds of the model.

\* Number of goals the action server receives.
NumGoals == 2
\* Longest feedback sequence one continuous navigate operation consumes.
MaxPolls == 3
\* Largest total_number_waypoints passed to GraphNavInterface.run.
MaxRunWaypoints == 1
\* Number of distinct command ids the remote service hands out.
MaxCmdId == 2

----------------------------------------------------------------------------
\* Program constants.

\* Python None as a command id (nav_to_cmd_id = None).
NoneHandle == 0
\* The default of _check_success's command_id parameter.
DefaultHandle == -1
\* self._max_attempts_to_wait: assigned in __init__, read nowhere.
max_attempts_to_wait == 50
\* The sequential caller of GraphNavInterface operations; goals are 1..NumGoals.
Cli == 0

Goals == 1..NumGoals
Threads == {Cli} \cup Goals
CmdIds == 1..MaxCmdId

\* motor_power_state values the code can observe.
PowerStates == {"OFF", "POWERING_ON", "ON"}

\* NavigationFeedbackResponse statuses.
TerminalStatuses == {"REACHED_GOAL", "LOST", "STUCK", "ROBOT_IMPAIRED"}
Statuses == TerminalStatuses \cup {"FOLLOWING_ROUTE", "NO_ROUTE"}

\* Poses a goal request can carry (x, y, yaw).
Poses == {"p1", "p2"}
NoPose == "none"

----------------------------------------------------------------------------
VARIABLES
    \* --- robot and host -------------------------------------------------
    robotPower,          \* motor_power_state of the robot
    leaseOwner,          \* "free", "node" (this process) or "external"
    rclpy_ok,            \* rclpy.ok()
    robotGraph,          \* the map held by the robot's GraphNav service
    diskGraph,           \* the map recorded under self._upload_filepath
    \* --- GraphNavInterface fields ----------------------------------------
    started_powered_on,  \* self._started_powered_on
    powered_on,          \* self._powered_on
    flag_nav,            \* self._flag_nav
    seed_T_goal,         \* self._seed_T_goal
    current_graph,       \* self._current_graph
    current_annotation_name_to_wp_id,
    current_edges,       \* self._current_edges: to_waypoint -> list of from_waypoint
    current_waypoint_snapshots,  \* ids of self._current_waypoint_snapshots
    current_edge_snapshots,      \* ids of self._current_edge_snapshots
    \* --- NavROS2SDK fields -----------------------------------------------
    goal_pose,           \* self.goal_x, self.goal_y, self.goal_yaw
    node_pc,             \* where NavROS2SDK.run is
    \* --- toggle_power frame of each thread --------------------------------
    tp,
    \* --- the sequential caller ---------------------------------------------
    cli,
    \* --- goal executions ---------------------------------------------------
    ge,
    keepAlive,           \* executions inside `with LeaseKeepAlive(...)`
    \* --- observation (history) variables ------------------------------------
    settledOn,           \* the last completed toggle_power call was toggle_power(True),
                         \* found the robot off and returned True, and nothing but
                         \* toggle_power's own reads touched the power since
    cleanupOff           \* a safe power-off was issued by an end-of-operation cleanup

envVars == <<robotPower, leaseOwner, rclpy_ok, robotGraph, diskGraph>>
gniVars == <<started_powered_on, powered_on, flag_nav, seed_T_goal>>
graphVars == <<current_graph, current_annotation_name_to_wp_id, current_edges,
               current_waypoint_snapshots, current_edge_snapshots>>
nodeVars == <<goal_pose, node_pc>>
obsVars == <<settledOn, cleanupOff>>
vars == <<robotPower, leaseOwner, rclpy_ok, robotGraph, diskGraph,
          started_powered_on, powered_on, flag_nav, seed_T_goal,
          current_graph, current_annotation_name_to_wp_id, current_edges,
          current_waypoint_snapshots, current_edge_snapshots,
          goal_pose, node_pc, tp, cli, ge, keepAlive, settledOn, cleanupOff>>

----------------------------------------------------------------------------
\* The robot and the other actors around it.

\* The motors finish powering up after a power-on command.
RobotPowersUp ==
    /\ robotPower = "POWERING_ON"
    /\ robotPower' = "ON"
    /\ UNCHANGED <<leaseOwner, rclpy_ok, robotGraph, diskGraph>>
    /\ UNCHANGED <<gniVars, graphVars, nodeVars, tp, cli, ge, keepAlive, obsVars>>

\* Another actor (operator tablet, e-stop, fault) changes the motor power.
ExternalPowerChange ==
    /\ \E p \in {"OFF", "ON"} :
          /\ p # robotPower
          /\ robotPower' = p
    /\ settledOn' = FALSE
    /\ UNCHANGED <<leaseOwner, rclpy_ok, robotGraph, diskGraph>>
    /\ UNCHANGED <<gniVars, graphVars, nodeVars, tp, cli, ge, keepAlive, cleanupOff>>

----------------------------------------------------------------------------
\* GraphNavInterface.toggle_power and check_is_powered_on.

TpIdle ==
    [pc |-> "none", should_power_on |-> FALSE, is_powered_on |-> FALSE,
     ret |-> FALSE, issued |-> "none", on_cmds |-> 0, site |-> "none",
     follows_on |-> FALSE]

\* The frame of a fresh call toggle_power(should_power_on) made from `site`.
TpCall(should_power_on, site) ==
    [TpIdle EXCEPT !.pc = "check", !.should_power_on = should_power_on, !.site = site]

\* check_is_powered_on: what get_robot_state().power_state compares to.
check_is_powered_on == robotPower = "ON"

\* The branch toggle_power takes once it knows is_powered_on.
toggle_power_branch_stale(is_powered_on, should_power_on) ==
    IF should_power_on THEN "power_on" ELSE "power_off"

toggle_power_branch(is_powered_on, should_power_on) ==
    IF ~is_powered_on /\ should_power_on THEN "power_on"
    ELSE IF is_powered_on /\ ~should_power_on THEN "power_off"
    ELSE "return"

\* The caller takes the result of a completed call and the frame is popped.
TpTaken(t) ==
    /\ tp' = [tp EXCEPT ![t] = TpIdle]
    /\ settledOn' = IF t = Cli
                    THEN tp[t].should_power_on /\ ~tp[t].is_powered_on /\ tp[t].ret /\ settledOn
                    ELSE settledOn

\* is_powered_on = self.check_is_powered_on(), then the three-way branch.
toggle_power_check(t) ==
    /\ tp[t].pc = "check"
    /\ LET is_on == check_is_powered_on
           br == toggle_power_branch(is_on, tp[t].should_power_on)
           f == [tp[t] EXCEPT !.is_powered_on = is_on, !.follows_on = settledOn]
       IN  /\ powered_on' = is_on
           /\ IF br = "return"
              THEN tp' = [tp EXCEPT ![t] = [f EXCEPT !.pc = "done", !.ret = is_on]]
              ELSE tp' = [tp EXCEPT ![t] = [f EXCEPT !.pc = br]]
    /\ settledOn' = (t = Cli \/ settledOn)
    /\ UNCHANGED <<envVars, started_powered_on, flag_nav, seed_T_goal, graphVars>>
    /\ UNCHANGED <<nodeVars, cli, ge, keepAlive, cleanupOff>>

\* power_on_motors(self._power_client): the motors start to power up.
toggle_power_on(t) ==
    /\ tp[t].pc = "power_on"
    /\ \E p \in {"POWERING_ON", "ON"} :
          robotPower' = IF robotPower = "ON" THEN "ON" ELSE p
    /\ tp' = [tp EXCEPT ![t].pc = "poll", ![t].issued = "on", ![t].on_cmds = @ + 1]
    /\ UNCHANGED <<leaseOwner, rclpy_ok, robotGraph, diskGraph>>
    /\ UNCHANGED <<gniVars, graphVars, nodeVars, cli, ge, keepAlive, obsVars>>

\* One pass of `while not motors_on`: get_robot_state_async().result(timeout=10).
toggle_power_poll(t) ==
    /\ tp[t].pc = "poll"
    /\ tp' = [tp EXCEPT ![t].pc = IF robotPower = "ON" THEN "recheck" ELSE "sleep"]
    /\ UNCHANGED <<envVars, gniVars, graphVars, nodeVars, cli, ge, keepAlive, obsVars>>

\* time.sleep(.25), then the loop tests motors_on again.
toggle_power_sleep(t) ==
    /\ tp[t].pc = "sleep"
    /\ tp' = [tp EXCEPT ![t].pc = "poll"]
    /\ UNCHANGED <<envVars, gniVars, graphVars, nodeVars, cli, ge, keepAlive, obsVars>>

\* safe_power_off_motors(...): the robot sits and the motors are cut.
toggle_power_off(t) ==
    /\ tp[t].pc = "power_off"
    /\ robotPower' = "OFF"
    /\ tp' = [tp EXCEPT ![t].pc = "recheck", ![t].issued = "off"]
    /\ cleanupOff' = (cleanupOff \/ tp[t].site = "cleanup")
    /\ UNCHANGED <<leaseOwner, rclpy_ok, robotGraph, diskGraph>>
    /\ UNCHANGED <<gniVars, graphVars, nodeVars, cli, ge, keepAlive, settledOn>>

\* self.check_is_powered_on(); return self._powered_on
toggle_power_recheck(t) ==
    /\ tp[t].pc = "recheck"
    /\ powered_on' = check_is_powered_on
    /\ tp' = [tp EXCEPT ![t].pc = "done", ![t].ret = check_is_powered_on]
    /\ settledOn' = (t = Cli \/ settledOn)
    /\ UNCHANGED <<envVars, started_powered_on, flag_nav, seed_T_goal, graphVars>>
    /\ UNCHANGED <<nodeVars, cli, ge, keepAlive, cleanupOff>>

\* A remote call of toggle_power raises (RpcError, power command failure, timeout).
toggle_power_raise(t) ==
    /\ tp[t].pc \in {"check", "power_on", "poll", "power_off", "recheck"}
    /\ tp' = [tp EXCEPT ![t].pc = "raised"]
    /\ UNCHANGED <<envVars, gniVars, graphVars, nodeVars, cli, ge, keepAlive, obsVars>>

toggle_power_step(t) ==
    \/ toggle_power_check(t)
    \/ toggle_power_on(t)
    \/ toggle_power_poll(t)
    \/ toggle_power_sleep(t)
    \/ toggle_power_off(t)
    \/ toggle_power_recheck(t)
    \/ toggle_power_raise(t)

----------------------------------------------------------------------------
\* The graph: waypoints, edges, the derived mappings.

\* Most (to_waypoint, from_waypoint) entries of an adjacency mapping given to
\* _match_edge on its own.
MaxEdges == 3

\* Python None / the empty string as a waypoint id (both are falsy).
NoneId == ""

Range(f) == {f[i] : i \in DOMAIN f}

\* The graph stored under the upload path.
DiskGraph ==
    [waypoints |-> << [id |-> "wa", name |-> "A", snapshot_id |-> "sa"],
                      [id |-> "wb", name |-> "B", snapshot_id |-> "sb"],
                      [id |-> "wc", name |-> "B", snapshot_id |-> "sc"] >>,
     edges |-> << [from |-> "wa", to |-> "wb", snapshot_id |-> "eab"],
                  [from |-> "wb", to |-> "wc", snapshot_id |-> ""] >>,
     anchors |-> 0]

EmptyGraph == [waypoints |-> <<>>, edges |-> <<>>, anchors |-> 0]

\* Tokens a caller names a waypoint by: ids, annotation names, an unknown one.
Tokens == {"wa", "wb", "wc", "A", "B", "zz"}

\* graph_nav_util.update_waypoints_and_edges, the annotation mapping: a name
\* carried by exactly one waypoint maps to its id, a shared name to None.
AnnotationNameToWpId(graph) ==
    LET wps == Range(graph.waypoints)
        names == {w.name : w \in wps}
    IN  [n \in names |->
            IF Cardinality({w \in wps : w.name = n}) = 1
            THEN (CHOOSE w \in wps : w.name = n).id
            ELSE NoneId]

\* One edge entered into the to_waypoint -> [from_waypoint] mapping.
AddEdge(adj, e) ==
    IF \E i \in 1..Len(adj) : adj[i].to = e.to
    THEN [i \in 1..Len(adj) |->
            IF adj[i].to = e.to /\ e.from \notin Range(adj[i].froms)
            THEN [adj[i] EXCEPT !.froms = Append(@, e.from)]
            ELSE adj[i]]
    ELSE Append(adj, [to |-> e.to, froms |-> <<e.from>>])

RECURSIVE EdgesFrom(_, _)
EdgesFrom(edges, adj) ==
    IF edges = <<>> THEN adj
    ELSE EdgesFrom(Tail(edges), AddEdge(adj, Head(edges)))

\* graph_nav_util.update_waypoints_and_edges, the adjacency mapping, in the
\* order a Python dict iterates it.
CurrentEdgesOf(graph) == EdgesFrom(graph.edges, <<>>)

\* graph_nav_util.find_unique_waypoint_id: a literal id of the graph, or the id
\* a unique annotation name maps to; None when there is no graph, the name is
\* shared or the token is unknown.
find_unique_waypoint_id(token, graph, name_to_id) ==
    IF graph = <<>> THEN NoneId
    ELSE IF \E w \in Range(graph[1].waypoints) : w.id = token THEN token
    ELSE IF token \in DOMAIN name_to_id THEN name_to_id[token]
    ELSE NoneId

\* The (edge_to_id, edge_from_id) pairs in the order _match_edge's two loops
\* visit them.
RECURSIVE EdgePairs(_)
EdgePairs(adj) ==
    IF adj = <<>> THEN <<>>
    ELSE [i \in 1..Len(Head(adj).froms) |->
             [to |-> Head(adj).to, from |-> Head(adj).froms[i]]]
         \o EdgePairs(Tail(adj))

\* _match_edge: the first pair that joins the two waypoints in either
\* direction, as <<Edge.Id>>; <<>> is None.
match_edge_as_asked(adj, waypoint1, waypoint2) ==
    IF \E i \in 1..Len(EdgePairs(adj)) :
          \/ waypoint1 = EdgePairs(adj)[i].to /\ waypoint2 = EdgePairs(adj)[i].from
          \/ waypoint2 = EdgePairs(adj)[i].to /\ waypoint1 = EdgePairs(adj)[i].from
    THEN << [from_waypoint |-> waypoint1, to_waypoint |-> waypoint2] >>
    ELSE <<>>

match_edge(adj, waypoint1, waypoint2) ==
    LET pairs == EdgePairs(adj)
        hit(i) == \/ waypoint1 = pairs[i].to /\ waypoint2 = pairs[i].from
                  \/ waypoint2 = pairs[i].to /\ waypoint1 = pairs[i].from
        hits == {i \in 1..Len(pairs) : hit(i)}
    IN  IF hits = {} THEN <<>>
        ELSE LET i == CHOOSE j \in hits : \A k \in hits : j <= k
             IN  IF waypoint1 = pairs[i].to /\ waypoint2 = pairs[i].from
                 THEN << [from_waypoint |-> waypoint2, to_waypoint |-> waypoint1] >>
                 ELSE << [from_waypoint |-> waypoint1, to_waypoint |-> waypoint2] >>

\* _check_success's classification of a feedback status: True ends the loop.
check_success_lost_continues(status) ==
    status \in {"REACHED_GOAL", "STUCK", "ROBOT_IMPAIRED"}

check_success(status) ==
    IF status = "REACHED_GOAL" THEN TRUE
    ELSE IF status = "LOST" THEN TRUE
    ELSE IF status = "STUCK" THEN TRUE
    ELSE IF status = "ROBOT_IMPAIRED" THEN TRUE
    ELSE FALSE

\* _check_success returns False without a remote call only for the default -1.
check_success_queries(command_id) == command_id # DefaultHandle

----------------------------------------------------------------------------
\* The sequential caller: one GraphNavInterface operation at a time.

CliIdle ==
    [op |-> "none", pc |-> "none", run_pc |-> "none",
     destination_waypoint |-> NoneId, nav_to_cmd_id |-> NoneHandle,
     waypoint_ids |-> <<>>, edge_ids_list |-> <<>>, seed_T_goal |-> NoPose,
     number_waypoints |-> 0, total_number_waypoints |-> 0,
     \* observation of the operation in progress or last returned
     last |-> "none", exit |-> "none", navCmds |-> 0, fbQueries |-> 0,
     lastStatus |-> "none",
     \* the pair of waypoints _navigate_route printed as having no edge
     failed_pair |-> <<>>,
     \* the operation called toggle_power(True); it called build_route; a call
     \* issuing a navigation command raised; the handle the last one was given
     gated |-> FALSE, route_built |-> FALSE, issue_failed |-> FALSE,
     \* that toggle_power(True) returned True
     gate_ok |-> FALSE,
     \* the operation called toggle_power(False) after its loop
     cleanup_called |-> FALSE,
     passed_cmd_id |-> NoneHandle,
     \* observation of the last upload: the flag passed to upload_graph, the
     \* snapshot ids the response named and the snapshots sent
     generate_new_anchoring |-> <<>>,
     unknown_waypoint_snapshot_ids |-> <<>>, sent_waypoint_snapshots |-> <<>>,
     unknown_edge_snapshot_ids |-> <<>>, sent_edge_snapshots |-> <<>>]

\* The frame of an operation that starts: its observation fields are reset.
CliEnter(c, op, pc) ==
    [c EXCEPT !.op = op, !.pc = pc, !.last = op, !.exit = "none",
              !.destination_waypoint = NoneId, !.nav_to_cmd_id = NoneHandle,
              !.waypoint_ids = <<>>, !.edge_ids_list = <<>>, !.seed_T_goal = NoPose,
              !.navCmds = 0, !.fbQueries = 0, !.lastStatus = "none",
              !.failed_pair = <<>>,
              !.gated = FALSE, !.route_built = FALSE, !.issue_failed = FALSE,
              !.gate_ok = FALSE, !.cleanup_called = FALSE,
              !.passed_cmd_id = NoneHandle,
              !.generate_new_anchoring = <<>>,
              !.unknown_waypoint_snapshot_ids = <<>>, !.sent_waypoint_snapshots = <<>>,
              !.unknown_edge_snapshot_ids = <<>>, !.sent_edge_snapshots = <<>>]

\* The operation returns normally; `how` records the path it took.
CliLeave(c, how) ==
    [c EXCEPT !.op = "none", !.pc = "none", !.exit = how,
              !.destination_waypoint = NoneId, !.nav_to_cmd_id = NoneHandle,
              !.waypoint_ids = <<>>, !.edge_ids_list = <<>>, !.seed_T_goal = NoPose,
              !.passed_cmd_id = NoneHandle]

CliReturn(c, how) == CliLeave(c, how)

\* An exception leaves the operation. GraphNavInterface.run catches it around
\* the upload and the listing only; elsewhere it leaves run as well.
CliRaise(c) ==
    [CliLeave(c, "exception") EXCEPT
              !.run_pc = IF c.run_pc \in {"upload", "list"} THEN c.run_pc ELSE "none"]

CliFree == cli.op = "none" /\ cli.run_pc = "none" /\ tp[Cli].pc = "none"

\* Statuses the remote may still report: the last poll the bound allows is terminal.
StatusesAt(n) == IF n + 1 >= MaxPolls THEN TerminalStatuses ELSE Statuses

\* toggle_power called on its own.
CallTogglePower ==
    /\ CliFree
    /\ \E b \in BOOLEAN :
          /\ cli' = CliEnter(cli, "toggle_power", "power")
          /\ tp' = [tp EXCEPT ![Cli] = TpCall(b, "direct")]
    /\ UNCHANGED <<envVars, gniVars, graphVars, nodeVars, ge, keepAlive, obsVars>>

TogglePowerReturned ==
    /\ cli.op = "toggle_power"
    /\ tp[Cli].pc = "done"
    /\ cli' = CliReturn(cli, IF tp[Cli].ret THEN "on" ELSE "off")
    /\ TpTaken(Cli)
    /\ UNCHANGED <<envVars, gniVars, graphVars, nodeVars, ge, keepAlive, cleanupOff>>

\* An exception of toggle_power propagates through the operation that called it.
TogglePowerRaised ==
    /\ tp[Cli].pc = "raised"
    /\ cli' = CliRaise(cli)
    /\ tp' = [tp EXCEPT ![Cli] = TpIdle]
    /\ settledOn' = FALSE
    /\ UNCHANGED <<envVars, gniVars, graphVars, nodeVars, ge, keepAlive, cleanupOff>>

\* `if not destination_waypoint: return`, `if not waypoint_ids[i]: return`
waypoint_not_found_ignored(id) == FALSE

waypoint_not_found(id) == id = NoneId

\* _navigate_to up to the power gate: resolve the token, then toggle_power(True).
navigate_to_enter(c, token) ==
    LET dest == find_unique_waypoint_id(token, current_graph,
                                        current_annotation_name_to_wp_id)
    IN  IF waypoint_not_found(dest)
        THEN /\ cli' = CliReturn(CliEnter(c, "navigate_to", "none"), "unresolved")
             /\ UNCHANGED tp
        ELSE /\ cli' = [CliEnter(c, "navigate_to", "power")
                           EXCEPT !.destination_waypoint = dest, !.gated = TRUE]
             /\ tp' = [tp EXCEPT ![Cli] = TpCall(TRUE, "gate")]

CallNavigateTo ==
    /\ CliFree
    /\ \E token \in Tokens : navigate_to_enter(cli, token)
    /\ UNCHANGED <<envVars, gniVars, graphVars, nodeVars, ge, keepAlive, obsVars>>

\* `if not self.toggle_power(should_power_on=True): return`, else enter the loop.
navigate_to_powered ==
    /\ cli.op = "navigate_to" /\ cli.pc = "power"
    /\ tp[Cli].pc = "done"
    /\ cli' = IF tp[Cli].ret
              THEN [cli EXCEPT !.pc = "issue", !.nav_to_cmd_id = NoneHandle,
                               !.gate_ok = TRUE]
              ELSE CliReturn(cli, "power_failed")
    /\ TpTaken(Cli)
    /\ UNCHANGED <<envVars, gniVars, graphVars, nodeVars, ge, keepAlive, cleanupOff>>

\* The try block of the loop: get_localization_state, then navigate_to with the
\* handle of the previous iteration. ResponseError breaks out of the loop.
navigate_to_issue ==
    /\ cli.op = "navigate_to" /\ cli.pc = "issue"
    /\ \/ \E id \in CmdIds :
             cli' = [cli EXCEPT !.pc = "feedback", !.nav_to_cmd_id = id,
                                !.passed_cmd_id = cli.nav_to_cmd_id,
                                !.navCmds = @ + 1]
       \/ cli' = CliReturn([cli EXCEPT !.issue_failed = TRUE], "response_error")
       \/ cli' = CliRaise([cli EXCEPT !.issue_failed = TRUE])
    /\ UNCHANGED <<envVars, gniVars, graphVars, nodeVars, tp, ge, keepAlive, obsVars>>

\* time.sleep(.5); is_finished = self._check_success(nav_to_cmd_id)
navigate_to_feedback ==
    /\ cli.op = "navigate_to" /\ cli.pc = "feedback"
    /\ IF check_success_queries(cli.nav_to_cmd_id)
       THEN \/ \E status \in StatusesAt(cli.fbQueries) :
                  LET c == [cli EXCEPT !.fbQueries = @ + 1, !.lastStatus = status]
                  IN  cli' = IF check_success(status)
                             THEN CliReturn(c, "finished")
                             ELSE [c EXCEPT !.pc = "issue"]
            \/ cli' = CliRaise([cli EXCEPT !.fbQueries = @ + 1])
       ELSE cli' = [cli EXCEPT !.pc = "issue"]
    /\ UNCHANGED <<envVars, gniVars, graphVars, nodeVars, tp, ge, keepAlive, obsVars>>

\* The snapshot ids a graph refers to; an edge may carry none.
WaypointSnapshotIds(graph) ==
    [i \in 1..Len(graph.waypoints) |-> graph.waypoints[i].snapshot_id]

EdgeSnapshotIds(graph) ==
    SelectSeq([i \in 1..Len(graph.edges) |-> graph.edges[i].snapshot_id],
              LAMBDA id : id # "")

\* The sublists of a list, in its order: what the robot may report as unknown.
RECURSIVE SubSeqs(_)
SubSeqs(q) ==
    IF q = <<>> THEN {<<>>}
    ELSE LET rest == SubSeqs(Tail(q))
         IN  rest \cup {<<Head(q)>> \o r : r \in rest}

\* _upload_graph_and_snapshots, reading the disk: the graph file is parsed into
\* _current_graph, then the snapshots of its waypoints and edges are added to
\* the two snapshot dicts. A missing graph file raises before anything is
\* assigned, a missing first snapshot file once the graph is.
upload_graph_enter(c) ==
    \/ cli' = CliRaise(CliEnter(c, "upload", "none")) /\ UNCHANGED graphVars
    \/ /\ current_graph' = <<diskGraph>>
       /\ \E k \in {0, Len(diskGraph.waypoints)} :
             /\ current_waypoint_snapshots' = current_waypoint_snapshots \cup
                   {diskGraph.waypoints[i].snapshot_id : i \in 1..k}
             /\ IF k < Len(diskGraph.waypoints)
                THEN /\ cli' = CliRaise(CliEnter(c, "upload", "none"))
                     /\ UNCHANGED current_edge_snapshots
                ELSE /\ cli' = CliEnter(c, "upload", "upload_graph")
                     /\ current_edge_snapshots' = current_edge_snapshots \cup
                           Range(EdgeSnapshotIds(diskGraph))
       /\ UNCHANGED <<current_annotation_name_to_wp_id, current_edges>>

CallUploadGraph ==
    /\ CliFree
    /\ upload_graph_enter(cli)
    /\ UNCHANGED <<envVars, gniVars, nodeVars, tp, ge, keepAlive, obsVars>>

\* true_if_empty = not len(self._current_graph.anchoring.anchors)
true_if_empty_always(graph) == TRUE

true_if_empty(graph) == graph.anchors = 0

\* upload_graph(graph=self._current_graph, generate_new_anchoring=true_if_empty):
\* the robot takes the graph and names the snapshots it does not hold.
upload_graph_call ==
    /\ cli.op = "upload" /\ cli.pc = "upload_graph"
    /\ \/ /\ robotGraph' = current_graph[1]
          /\ \E uw \in SubSeqs(WaypointSnapshotIds(current_graph[1])),
                ue \in SubSeqs(EdgeSnapshotIds(current_graph[1])) :
                cli' = [cli EXCEPT !.pc = "send",
                           !.generate_new_anchoring = <<true_if_empty(current_graph[1])>>,
                           !.unknown_waypoint_snapshot_ids = uw,
                           !.unknown_edge_snapshot_ids = ue]
       \/ /\ cli' = CliRaise(cli)
          /\ UNCHANGED robotGraph
    /\ UNCHANGED <<robotPower, leaseOwner, rclpy_ok, diskGraph>>
    /\ UNCHANGED <<gniVars, graphVars, nodeVars, tp, ge, keepAlive, obsVars>>

\* The snapshot ids a loop over the response has still to send.
snapshots_to_send_all(unknown_ids, held) == held

snapshots_to_send(unknown_ids, held) == unknown_ids

\* `for snapshot_id in response.unknown_waypoint_snapshot_ids`: one iteration.
upload_waypoint_snapshot ==
    /\ cli.op = "upload" /\ cli.pc = "send"
    /\ LET todo == snapshots_to_send(cli.unknown_waypoint_snapshot_ids,
                                     WaypointSnapshotIds(current_graph[1]))
           n == Len(cli.sent_waypoint_snapshots)
       IN  /\ n < Len(todo)
           /\ \/ /\ todo[n + 1] \in current_waypoint_snapshots
                 /\ cli' = [cli EXCEPT !.sent_waypoint_snapshots = Append(@, todo[n + 1])]
              \/ cli' = CliRaise(cli)
    /\ UNCHANGED <<envVars, gniVars, graphVars, nodeVars, tp, ge, keepAlive, obsVars>>

\* `for snapshot_id in response.unknown_edge_snapshot_ids`: one iteration.
upload_edge_snapshot ==
    /\ cli.op = "upload" /\ cli.pc = "send"
    /\ LET wps == snapshots_to_send(cli.unknown_waypoint_snapshot_ids,
                                    WaypointSnapshotIds(current_graph[1]))
           todo == snapshots_to_send(cli.unknown_edge_snapshot_ids,
                                     EdgeSnapshotIds(current_graph[1]))
           n == Len(cli.sent_edge_snapshots)
       IN  /\ Len(cli.sent_waypoint_snapshots) = Len(wps)
           /\ n < Len(todo)
           /\ \/ /\ todo[n + 1] \in current_edge_snapshots
                 /\ cli' = [cli EXCEPT !.sent_edge_snapshots = Append(@, todo[n + 1])]
              \/ cli' = CliRaise(cli)
    /\ UNCHANGED <<envVars, gniVars, graphVars, nodeVars, tp, ge, keepAlive, obsVars>>

\* Both loops are through: get_localization_state, a hint is printed, return.
upload_graph_localized ==
    /\ cli.op = "upload" /\ cli.pc = "send"
    /\ Len(cli.sent_waypoint_snapshots) =
          Len(snapshots_to_send(cli.unknown_waypoint_snapshot_ids,
                                WaypointSnapshotIds(current_graph[1])))
    /\ Len(cli.sent_edge_snapshots) =
          Len(snapshots_to_send(cli.unknown_edge_snapshot_ids,
                                EdgeSnapshotIds(current_graph[1])))
    /\ \/ cli' = CliReturn(cli, "uploaded")
       \/ cli' = CliRaise(cli)
    /\ UNCHANGED <<envVars, gniVars, graphVars, nodeVars, tp, ge, keepAlive, obsVars>>

\* _clear_graph: the request is forwarded to the robot and its answer returned;
\* no field of the interface is assigned.
clear_graph_enter(c) ==
    \/ /\ robotGraph' = EmptyGraph
       /\ cli' = CliReturn(CliEnter(c, "clear", "none"), "cleared")
    \/ /\ cli' = CliRaise(CliEnter(c, "clear", "none"))
       /\ UNCHANGED robotGraph

CallClearGraph ==
    /\ CliFree
    /\ clear_graph_enter(cli)
    /\ UNCHANGED <<robotPower, leaseOwner, rclpy_ok, diskGraph>>
    /\ UNCHANGED <<gniVars, graphVars, nodeVars, tp, ge, keepAlive, obsVars>>

\* _list_graph_waypoint_and_edge_ids: download_graph, get_localization_state,
\* update_waypoints_and_edges. A failed localization read leaves the new graph
\* with the old mappings.
list_graph_enter(c) ==
    \/ cli' = CliRaise(CliEnter(c, "list", "none")) /\ UNCHANGED graphVars
    \/ /\ current_graph' = <<robotGraph>>
       /\ \/ /\ cli' = CliRaise(CliEnter(c, "list", "none"))
             /\ UNCHANGED <<current_annotation_name_to_wp_id, current_edges>>
          \/ /\ cli' = CliReturn(CliEnter(c, "list", "none"), "listed")
             /\ current_annotation_name_to_wp_id' = AnnotationNameToWpId(robotGraph)
             /\ current_edges' = CurrentEdgesOf(robotGraph)
       /\ UNCHANGED <<current_waypoint_snapshots, current_edge_snapshots>>

CallListGraph ==
    /\ CliFree
    /\ list_graph_enter(cli)
    /\ UNCHANGED <<envVars, gniVars, nodeVars, tp, ge, keepAlive, obsVars>>

----------------------------------------------------------------------------
\* _navigate_route.

\* Longest list of tokens a route request names.
MaxRouteLen == 3

RouteTokens == {"wa", "wb", "wc", "zz"}
RouteRequests == UNION {[1..n -> RouteTokens] : n \in 1..MaxRouteLen}

\* The first loop: each token is replaced by its waypoint id.
ResolvedRoute(tokens) ==
    [i \in 1..Len(tokens) |->
        find_unique_waypoint_id(tokens[i], current_graph,
                                current_annotation_name_to_wp_id)]

\* The second loop: the consecutive pairs matched in order up to the first pair
\* without an edge. found is all_edges_found, pair the pair that was printed.
MatchRoute_one_direction(waypoint_ids, i, edge_ids_list) ==
    LET recorded(k) == \E p \in Range(EdgePairs(current_edges)) :
                           p.to = waypoint_ids[k] /\ p.from = waypoint_ids[k + 1]
        bad == {k \in i..(Len(waypoint_ids) - 1) : ~recorded(k)}
        last == IF bad = {} THEN Len(waypoint_ids) - 1
                ELSE (CHOOSE k \in bad : \A l \in bad : k <= l) - 1
    IN  [found |-> bad = {},
         edge_ids_list |-> edge_ids_list \o
             [k \in 1..(last - i + 1) |->
                 [from_waypoint |-> waypoint_ids[i + k],
                  to_waypoint |-> waypoint_ids[i + k - 1]]],
         pair |-> IF bad = {} THEN <<>>
                  ELSE <<waypoint_ids[last + 1], waypoint_ids[last + 2]>>]

RECURSIVE MatchRoute(_, _, _)
MatchRoute(waypoint_ids, i, edge_ids_list) ==
    IF i > Len(waypoint_ids) - 1
    THEN [found |-> TRUE, edge_ids_list |-> edge_ids_list, pair |-> <<>>]
    ELSE LET edge_id == match_edge(current_edges, waypoint_ids[i], waypoint_ids[i + 1])
         IN  IF edge_id # <<>>
             THEN MatchRoute(waypoint_ids, i + 1, edge_ids_list \o edge_id)
             ELSE [found |-> FALSE, edge_ids_list |-> edge_ids_list,
                   pair |-> <<waypoint_ids[i], waypoint_ids[i + 1]>>]

\* `if all_edges_found:`
route_all_edges_found_ignored(m) == TRUE

route_all_edges_found(m) == m.found

\* _navigate_route up to the power gate.
navigate_route_enter(tokens) ==
    LET waypoint_ids == ResolvedRoute(tokens)
        c == CliEnter(cli, "navigate_route", "none")
    IN  IF \E i \in 1..Len(tokens) : waypoint_not_found(waypoint_ids[i])
        THEN /\ cli' = CliReturn(c, "unresolved")
             /\ UNCHANGED tp
        ELSE LET m == MatchRoute(waypoint_ids, 1, <<>>)
                 d == [c EXCEPT !.waypoint_ids = waypoint_ids,
                                !.edge_ids_list = m.edge_ids_list,
                                !.failed_pair = m.pair]
             IN  IF route_all_edges_found(m)
                 THEN /\ cli' = [d EXCEPT !.pc = "power", !.gated = TRUE]
                      /\ tp' = [tp EXCEPT ![Cli] = TpCall(TRUE, "gate")]
                 ELSE /\ cli' = CliReturn(d, "no_edge")
                      /\ UNCHANGED tp

CallNavigateRoute ==
    /\ CliFree
    /\ \E tokens \in RouteRequests : navigate_route_enter(tokens)
    /\ UNCHANGED <<envVars, gniVars, graphVars, nodeVars, ge, keepAlive, obsVars>>

\* The power gate of _navigate_route, then build_route.
navigate_route_powered ==
    /\ cli.op = "navigate_route" /\ cli.pc = "power"
    /\ tp[Cli].pc = "done"
    /\ cli' = IF tp[Cli].ret
              THEN [cli EXCEPT !.pc = "issue", !.route_built = TRUE, !.gate_ok = TRUE]
              ELSE CliReturn(cli, "power_failed")
    /\ TpTaken(Cli)
    /\ UNCHANGED <<envVars, gniVars, graphVars, nodeVars, ge, keepAlive, cleanupOff>>

\* navigate_route(route, cmd_duration=1.0): no try around it, no handle passed.
navigate_route_issue ==
    /\ cli.op = "navigate_route" /\ cli.pc = "issue"
    /\ \/ \E id \in CmdIds :
             cli' = [cli EXCEPT !.pc = "feedback", !.nav_to_cmd_id = id,
                                !.navCmds = @ + 1]
       \/ cli' = CliRaise([cli EXCEPT !.issue_failed = TRUE])
    /\ UNCHANGED <<envVars, gniVars, graphVars, nodeVars, tp, ge, keepAlive, obsVars>>

\* is_finished = self._check_success(nav_route_command_id)
navigate_route_feedback ==
    /\ cli.op = "navigate_route" /\ cli.pc = "feedback"
    /\ IF check_success_queries(cli.nav_to_cmd_id)
       THEN \/ \E status \in StatusesAt(cli.fbQueries) :
                  LET c == [cli EXCEPT !.fbQueries = @ + 1, !.lastStatus = status]
                  IN  cli' = [c EXCEPT !.pc = IF check_success(status)
                                              THEN "cleanup" ELSE "issue"]
            \/ cli' = CliRaise([cli EXCEPT !.fbQueries = @ + 1])
       ELSE cli' = [cli EXCEPT !.pc = "issue"]
    /\ UNCHANGED <<envVars, gniVars, graphVars, nodeVars, tp, ge, keepAlive, obsVars>>

\* `if self._powered_on and not self._started_powered_on` after the route loop.
route_should_power_off_unconditional == powered_on

route_should_power_off == powered_on /\ ~started_powered_on

\* The cleanup of _navigate_route: toggle_power(should_power_on=False) or nothing.
navigate_route_cleanup ==
    /\ cli.op = "navigate_route" /\ cli.pc = "cleanup"
    /\ IF route_should_power_off
       THEN /\ cli' = [cli EXCEPT !.pc = "power_off", !.cleanup_called = TRUE]
            /\ tp' = [tp EXCEPT ![Cli] = TpCall(FALSE, "cleanup")]
       ELSE /\ cli' = CliReturn(cli, "finished")
            /\ UNCHANGED tp
    /\ UNCHANGED <<envVars, gniVars, graphVars, nodeVars, ge, keepAlive, obsVars>>

navigate_route_cleaned ==
    /\ cli.op = "navigate_route" /\ cli.pc = "power_off"
    /\ tp[Cli].pc = "done"
    /\ cli' = CliReturn(cli, "finished")
    /\ TpTaken(Cli)
    /\ UNCHANGED <<envVars, gniVars, graphVars, nodeVars, ge, keepAlive, cleanupOff>>

----------------------------------------------------------------------------
\* _navigate_to_anchor, the continuous variant.

\* An argument list: its length and the pose its numbers spell.
AnchorArgs == {[n |-> k, pose |-> p] : k \in {1, 2, 3, 4, 7}, p \in Poses}

\* The pose GraphNavInterface.run returns to: [1.67, 0, 3.1].
RunPose == "p_run"

\* _navigate_to_anchor up to the power gate: the argument check, the pose, the
\* current z from get_localization_state when the list carries none (the read
\* finds the robot localized, or not localized, or raises).
navigate_to_anchor_enter(c0, args) ==
    LET c == CliEnter(c0, "navigate_to_anchor", "none")
    IN  IF args.n \notin {2, 3, 4, 7}
        THEN /\ cli' = CliReturn(c, "invalid")
             /\ UNCHANGED tp
        ELSE \/ /\ cli' = [c EXCEPT !.pc = "power", !.seed_T_goal = args.pose,
                                    !.gated = TRUE]
                /\ tp' = [tp EXCEPT ![Cli] = TpCall(TRUE, "gate")]
             \/ /\ args.n \notin {4, 7}
                /\ cli' = CliReturn(c, "not_localized")
                /\ UNCHANGED tp
             \/ /\ args.n \notin {4, 7}
                /\ cli' = CliRaise(c)
                /\ UNCHANGED tp

CallNavigateToAnchor ==
    /\ CliFree
    /\ \E args \in AnchorArgs : navigate_to_anchor_enter(cli, args)
    /\ UNCHANGED <<envVars, gniVars, graphVars, nodeVars, ge, keepAlive, obsVars>>

navigate_to_anchor_powered ==
    /\ cli.op = "navigate_to_anchor" /\ cli.pc = "power"
    /\ tp[Cli].pc = "done"
    /\ cli' = IF tp[Cli].ret
              THEN [cli EXCEPT !.pc = "issue", !.nav_to_cmd_id = NoneHandle,
                               !.gate_ok = TRUE]
              ELSE CliReturn(cli, "power_failed")
    /\ TpTaken(Cli)
    /\ UNCHANGED <<envVars, gniVars, graphVars, nodeVars, ge, keepAlive, cleanupOff>>

\* The try block: get_localization_state, the pose fields, navigate_to_anchor
\* with the handle of the previous iteration. ResponseError breaks the loop.
navigate_to_anchor_issue ==
    /\ cli.op = "navigate_to_anchor" /\ cli.pc = "issue"
    /\ \/ \E id \in CmdIds :
             cli' = [cli EXCEPT !.pc = "feedback", !.nav_to_cmd_id = id,
                                !.passed_cmd_id = cli.nav_to_cmd_id,
                                !.navCmds = @ + 1]
       \/ cli' = CliReturn([cli EXCEPT !.issue_failed = TRUE], "response_error")
       \/ cli' = CliRaise([cli EXCEPT !.issue_failed = TRUE])
    /\ UNCHANGED <<envVars, gniVars, graphVars, nodeVars, tp, ge, keepAlive, obsVars>>

navigate_to_anchor_feedback ==
    /\ cli.op = "navigate_to_anchor" /\ cli.pc = "feedback"
    /\ IF check_success_queries(cli.nav_to_cmd_id)
       THEN \/ \E status \in StatusesAt(cli.fbQueries) :
                  LET c == [cli EXCEPT !.fbQueries = @ + 1, !.lastStatus = status]
                  IN  cli' = IF check_success(status)
                             THEN CliReturn(c, "finished")
                             ELSE [c EXCEPT !.pc = "issue"]
            \/ cli' = CliRaise([cli EXCEPT !.fbQueries = @ + 1])
       ELSE cli' = [cli EXCEPT !.pc = "issue"]
    /\ UNCHANGED <<envVars, gniVars, graphVars, nodeVars, tp, ge, keepAlive, obsVars>>

----------------------------------------------------------------------------
\* GraphNavInterface.run(total_number_waypoints) and _on_quit.

\* run starts: the upload, inside try/except.
CallRun ==
    /\ CliFree
    /\ \E n \in 0..MaxRunWaypoints :
          upload_graph_enter([cli EXCEPT !.run_pc = "upload", !.number_waypoints = 0,
                                         !.total_number_waypoints = n])
    /\ UNCHANGED <<envVars, gniVars, nodeVars, tp, ge, keepAlive, obsVars>>

\* After the upload returned or its exception was printed: the listing, inside
\* try/except.
run_list ==
    /\ cli.run_pc = "upload" /\ cli.op = "none"
    /\ list_graph_enter([cli EXCEPT !.run_pc = "list"])
    /\ UNCHANGED <<envVars, gniVars, nodeVars, tp, ge, keepAlive, obsVars>>

\* `while number_waypoints < total_number_waypoints`: random.choice over the
\* annotation mapping (IndexError when it is empty, TypeError in str.split when
\* the value is None), then _navigate_to; after the loop _navigate_to_anchor.
run_loop ==
    /\ cli.run_pc \in {"list", "loop"} /\ cli.op = "none"
    /\ IF cli.number_waypoints < cli.total_number_waypoints
       THEN IF DOMAIN current_annotation_name_to_wp_id = {}
            THEN /\ cli' = [CliRaise([cli EXCEPT !.run_pc = "loop"]) EXCEPT !.last = "run"]
                 /\ UNCHANGED tp
            ELSE \E key \in DOMAIN current_annotation_name_to_wp_id :
                    LET val == current_annotation_name_to_wp_id[key]
                    IN  IF val = NoneId
                        THEN /\ cli' = [CliRaise([cli EXCEPT !.run_pc = "loop"])
                                           EXCEPT !.last = "run"]
                             /\ UNCHANGED tp
                        ELSE navigate_to_enter([cli EXCEPT !.run_pc = "visit"], val)
       ELSE navigate_to_anchor_enter([cli EXCEPT !.run_pc = "anchor"],
                                     [n |-> 3, pose |-> RunPose])
    /\ UNCHANGED <<envVars, gniVars, graphVars, nodeVars, ge, keepAlive, obsVars>>

\* time.sleep(5); number_waypoints += 1
run_visited ==
    /\ cli.run_pc = "visit" /\ cli.op = "none"
    /\ cli' = [cli EXCEPT !.run_pc = "loop", !.number_waypoints = @ + 1]
    /\ UNCHANGED <<envVars, gniVars, graphVars, nodeVars, tp, ge, keepAlive, obsVars>>

\* `if self._powered_on and not self._started_powered_on` at the end of run.
run_should_power_off == powered_on /\ ~started_powered_on

run_cleanup ==
    /\ cli.run_pc = "anchor" /\ cli.op = "none"
    /\ IF run_should_power_off
       THEN /\ cli' = [cli EXCEPT !.run_pc = "cleanup", !.op = "run_cleanup",
                                  !.pc = "power_off", !.last = "run"]
            /\ tp' = [tp EXCEPT ![Cli] = TpCall(FALSE, "cleanup")]
       ELSE /\ cli' = [cli EXCEPT !.run_pc = "none", !.last = "run"]
            /\ UNCHANGED tp
    /\ UNCHANGED <<envVars, gniVars, graphVars, nodeVars, ge, keepAlive, obsVars>>

run_cleaned ==
    /\ cli.op = "run_cleanup"
    /\ tp[Cli].pc = "done"
    /\ cli' = [CliReturn(cli, "finished") EXCEPT !.run_pc = "none"]
    /\ TpTaken(Cli)
    /\ UNCHANGED <<envVars, gniVars, graphVars, nodeVars, ge, keepAlive, cleanupOff>>

\* `if self._powered_on and not self._started_powered_on` in _on_quit.
on_quit_should_power_off == powered_on /\ ~started_powered_on

\* _on_quit: robot_command(safe_power_off_command()) under the guard. The
\* command line interface ends here.
CallOnQuit ==
    /\ CliFree
    /\ LET c == [CliEnter(cli, "quit", "none") EXCEPT !.op = "quit"]
       IN  IF on_quit_should_power_off
           THEN \/ /\ robotPower' = "OFF"
                   /\ cleanupOff' = TRUE
                   /\ settledOn' = FALSE
                   /\ cli' = [c EXCEPT !.exit = "powered_off"]
                \/ /\ cli' = [c EXCEPT !.exit = "exception"]
                   /\ UNCHANGED <<robotPower, obsVars>>
           ELSE /\ cli' = [c EXCEPT !.exit = "left_as_is"]
                /\ UNCHANGED <<robotPower, obsVars>>
    /\ UNCHANGED <<leaseOwner, rclpy_ok, robotGraph, diskGraph>>
    /\ UNCHANGED <<gniVars, graphVars, nodeVars, tp, ge, keepAlive>>

----------------------------------------------------------------------------
\* The state after GraphNavInterface.__init__ and NavROS2SDK.__init__.

\* goal_x = goal_y = goal_yaw = 0
ZeroPose == "p0"

\* A goal the action server has not received yet.
\* Most calls of one kind the observation of a single-step call tells apart.
MaxCounted == 2

GeNew ==
    [pc |-> "new", request |-> NoPose, cancel |-> "no", arg |-> NoPose,
     nav_to_cmd_id |-> NoneHandle, step |-> "none", handle |-> "active",
     result |-> "none",
     \* observation of the execution
     stepped |-> FALSE, published |-> FALSE, raised |-> FALSE, denied_by |-> "no",
     acquires |-> 0, status |-> "none",
     \* the handle the last navigate_to_anchor call was given, and the handle the
     \* previous single-step call for this goal got back
     passed_cmd_id |-> NoneHandle, last_cmd_id |-> NoneHandle,
     \* what the single-step call in progress has done so far: localization
     \* reads of its poll iteration, navigate_to_anchor commands, feedback queries
     reads |-> 0, cmds |-> 0, fbs |-> 0,
     \* the last single-step call for this goal printed 'Robot not localized'
     unlocalized |-> FALSE,
     \* feedback messages published in the iteration in progress, or in the
     \* last one when the execution is between iterations or has returned
     fed |-> 0,
     \* a toggle_power(True) called for this goal returned True
     gate_ok |-> FALSE,
     \* the pose the navigate_to_anchor command in flight was given
     sent_pose |-> NoPose]

InitCommon ==
    /\ robotPower \in PowerStates
    /\ leaseOwner = "free"
    /\ rclpy_ok = TRUE
    /\ robotGraph = EmptyGraph
    /\ started_powered_on = (robotPower = "ON")
    /\ powered_on = started_powered_on
    /\ flag_nav = FALSE
    /\ seed_T_goal = NoPose
    /\ current_graph = <<>>
    /\ current_annotation_name_to_wp_id = <<>>
    /\ current_waypoint_snapshots = {}
    /\ current_edge_snapshots = {}
    /\ goal_pose = ZeroPose
    /\ tp = [t \in Threads |-> TpIdle]
    /\ cli = CliIdle
    /\ ge = [g \in Goals |-> GeNew]
    /\ keepAlive = {}
    /\ settledOn = FALSE
    /\ cleanupOff = FALSE

\* The program as deployed: the recorded map on disk, no edges known yet.
Init ==
    /\ InitCommon
    /\ diskGraph = DiskGraph
    /\ current_edges = <<>>
    /\ node_pc = "spin"

----------------------------------------------------------------------------
\* The action server of NavROS2SDK: goal_callback, cancel_callback and
\* execute_callback, dispatched in a ReentrantCallbackGroup: the callbacks of
\* different goals may interleave at every remote call. The runs of an executor
\* with a single thread, which finishes one callback before the next, are among
\* the behaviours.

\* Another actor (the operator's tablet) takes the lease while it is free.
ExternalTakesLease ==
    /\ leaseOwner = "free"
    /\ leaseOwner' = "external"
    /\ UNCHANGED <<robotPower, rclpy_ok, robotGraph, diskGraph>>
    /\ UNCHANGED <<gniVars, graphVars, nodeVars, tp, cli, ge, keepAlive, obsVars>>

ExternalReturnsLease ==
    /\ leaseOwner = "external"
    /\ leaseOwner' = "free"
    /\ UNCHANGED <<robotPower, rclpy_ok, robotGraph, diskGraph>>
    /\ UNCHANGED <<gniVars, graphVars, nodeVars, tp, cli, ge, keepAlive, obsVars>>

\* The host shuts down: rclpy.ok() is False from now on.
Shutdown ==
    /\ rclpy_ok
    /\ rclpy_ok' = FALSE
    /\ UNCHANGED <<robotPower, leaseOwner, robotGraph, diskGraph>>
    /\ UNCHANGED <<gniVars, graphVars, nodeVars, tp, cli, ge, keepAlive, obsVars>>

\* goal_callback: the requested pose is stored in the node's fields and the
\* goal is accepted.
goal_callback(g) ==
    /\ rclpy_ok
    /\ node_pc = "spin"
    /\ ge[g].pc = "new"
    /\ \E pose \in Poses :
          /\ goal_pose' = pose
          /\ UNCHANGED node_pc
          /\ ge' = [ge EXCEPT ![g].pc = "accepted", ![g].request = pose]
    /\ UNCHANGED <<envVars, gniVars, graphVars, tp, cli, keepAlive, obsVars>>

GoalActive(g) == ge[g].pc \notin {"new", "returned"}

\* cancel_callback: the cancel request is accepted; goal_handle.is_cancel_requested
\* reads True from now on. The observation keeps when it arrived.
cancel_callback(g) ==
    /\ rclpy_ok
    /\ GoalActive(g)
    /\ ge[g].cancel = "no"
    /\ ge' = [ge EXCEPT ![g].cancel =
                 IF ge[g].pc = "accepted" THEN "before_execute"
                 ELSE IF ~ge[g].published THEN "before_feedback"
                 ELSE "later"]
    /\ UNCHANGED <<envVars, gniVars, graphVars, nodeVars, tp, cli, keepAlive, obsVars>>

\* goal_handle.is_cancel_requested
is_cancel_requested_never(g) == FALSE

is_cancel_requested(g) == ge[g].cancel # "no"

\* LeaseKeepAlive(must_acquire=True): the acquisition succeeds when nobody holds
\* the lease, and raises ResourceAlreadyClaimedError otherwise.
lease_acquired_always == TRUE

lease_acquired == leaseOwner = "free"

\* Leaving the `with LeaseKeepAlive(..., return_at_exit=True)` block on any
\* path: the keep-alive stops and the lease is returned.
exit_with_leaked(g) == UNCHANGED <<leaseOwner, keepAlive>>

exit_with(g) ==
    /\ keepAlive' = keepAlive \ {g}
    /\ leaseOwner' = "free"

\* execute_callback returns: its locals are gone, the observation stays.
GeReturn(f, result) ==
    [f EXCEPT !.pc = "returned", !.result = result, !.arg = NoPose,
              !.step = "none", !.nav_to_cmd_id = NoneHandle,
              !.passed_cmd_id = NoneHandle, !.last_cmd_id = NoneHandle,
              !.reads = 0, !.cmds = 0, !.fbs = 0, !.gate_ok = FALSE,
              !.sent_pose = NoPose]

\* `except ResourceAlreadyClaimedError`: a result with success = False.
on_lease_denied_retry(f) == [f EXCEPT !.pc = "accepted", !.denied_by = leaseOwner]

on_lease_denied(f) ==
    GeReturn([f EXCEPT !.denied_by = leaseOwner], "failure_lease")

\* execute_callback enters the with block.
execute_acquire(g) ==
    /\ ge[g].pc = "accepted"
    /\ LET f == [ge[g] EXCEPT !.acquires = IF @ < 2 THEN @ + 1 ELSE @]
       IN  IF lease_acquired
           THEN /\ leaseOwner' = "node"
                /\ keepAlive' = keepAlive \cup {g}
                /\ ge' = [ge EXCEPT ![g] = [f EXCEPT !.pc = "loop"]]
           ELSE /\ ge' = [ge EXCEPT ![g] = on_lease_denied(f)]
                /\ UNCHANGED <<leaseOwner, keepAlive>>
    /\ UNCHANGED <<robotPower, rclpy_ok, robotGraph, diskGraph>>
    /\ UNCHANGED <<gniVars, graphVars, nodeVars, tp, cli, obsVars>>

\* `while rclpy.ok()`, the cancellation check, and the call of
\* run_next_position_once(self.goal_x, self.goal_y, self.goal_yaw).
execute_loop_top(g) ==
    /\ ge[g].pc = "loop"
    /\ IF ~rclpy_ok
       THEN /\ ge' = [ge EXCEPT ![g] = GeReturn(ge[g], "fell_through")]
            /\ exit_with(g)
       ELSE IF is_cancel_requested(g)
       THEN /\ ge' = [ge EXCEPT ![g] =
                           GeReturn([ge[g] EXCEPT !.handle = "canceled"], "canceled")]
            /\ exit_with(g)
       ELSE /\ ge' = [ge EXCEPT ![g].pc = "once_entry", ![g].arg = goal_pose,
                                ![g].step = "none", ![g].status = "none",
                                ![g].reads = 0, ![g].cmds = 0, ![g].fbs = 0,
                                ![g].fed = 0,
                                ![g].stepped = TRUE]
            /\ UNCHANGED <<leaseOwner, keepAlive>>
    /\ UNCHANGED <<robotPower, rclpy_ok, robotGraph, diskGraph>>
    /\ UNCHANGED <<gniVars, graphVars, nodeVars, tp, cli, obsVars>>

\* `except Exception`: a result with success = False is returned.
on_step_exception_continue(f) == [f EXCEPT !.pc = "loop", !.raised = TRUE]

on_step_exception(f) ==
    GeReturn([f EXCEPT !.raised = TRUE], "failure_exception")

\* An exception raised inside the step reaches the handler of execute_callback.
StepRaises(g) ==
    /\ ge' = [ge EXCEPT ![g] = on_step_exception(ge[g])]
    /\ IF on_step_exception(ge[g]).pc = "returned"
       THEN exit_with(g)
       ELSE UNCHANGED <<leaseOwner, keepAlive>>

\* _navigate_to_anchor_once, the part under `if self._flag_nav == False`: the
\* pose is parsed into self._seed_T_goal, the current z is read from
\* get_localization_state (the list [x, y, yaw] carries none), then the power gate.
once_enter(g) ==
    /\ ge[g].pc = "once_entry"
    /\ IF flag_nav = FALSE
       THEN /\ seed_T_goal' = ge[g].arg
            /\ \/ /\ ge' = [ge EXCEPT ![g].pc = "once_power", ![g].unlocalized = FALSE]
                  /\ tp' = [tp EXCEPT ![g] = TpCall(TRUE, "gate")]
                  /\ UNCHANGED <<leaseOwner, keepAlive>>
               \/ /\ ge' = [ge EXCEPT ![g].pc = "publish", ![g].step = "None",
                                       ![g].unlocalized = TRUE]
                  /\ UNCHANGED <<tp, leaseOwner, keepAlive>>
               \/ /\ StepRaises(g)
                  /\ UNCHANGED tp
       ELSE /\ ge' = [ge EXCEPT ![g].pc = "once_cmd", ![g].unlocalized = FALSE]
            /\ UNCHANGED <<seed_T_goal, tp, leaseOwner, keepAlive>>
    /\ UNCHANGED <<robotPower, rclpy_ok, robotGraph, diskGraph>>
    /\ UNCHANGED <<started_powered_on, powered_on, flag_nav>>
    /\ UNCHANGED <<graphVars, nodeVars, cli, obsVars>>

\* `if not self.toggle_power(should_power_on=True): return`
once_powered(g) ==
    /\ ge[g].pc = "once_power"
    /\ tp[g].pc = "done"
    /\ ge' = IF tp[g].ret
             THEN [ge EXCEPT ![g].pc = "once_cmd", ![g].gate_ok = TRUE]
             ELSE [ge EXCEPT ![g].pc = "publish", ![g].step = "None"]
    /\ TpTaken(g)
    /\ UNCHANGED <<envVars, gniVars, graphVars, nodeVars, cli, keepAlive, cleanupOff>>

once_power_raised(g) ==
    /\ ge[g].pc = "once_power"
    /\ tp[g].pc = "raised"
    /\ StepRaises(g)
    /\ tp' = [tp EXCEPT ![g] = TpIdle]
    /\ UNCHANGED settledOn
    /\ UNCHANGED <<robotPower, rclpy_ok, robotGraph, diskGraph>>
    /\ UNCHANGED <<gniVars, graphVars, nodeVars, cli, cleanupOff>>

\* `nav_to_cmd_id = None`, on every call, whatever self._flag_nav says.
once_cmd_id(f) == NoneHandle

\* One more call of a kind made by the single-step call in progress; the
\* observation stops counting at MaxCounted.
Counted(n) == IF n < MaxCounted THEN n + 1 ELSE n

\* nav_to_cmd_id = None; self._flag_nav = True; get_localization_state and the
\* pose fields; navigate_to_anchor(self._seed_T_goal, 1.0, command_id=nav_to_cmd_id).
once_command(g) ==
    /\ ge[g].pc = "once_cmd"
    /\ flag_nav' = TRUE
    /\ \/ /\ \E id \in CmdIds :
                ge' = [ge EXCEPT ![g].pc = "once_feedback", ![g].nav_to_cmd_id = id,
                                 ![g].passed_cmd_id = once_cmd_id(ge[g]),
                                 ![g].reads = Counted(@), ![g].cmds = Counted(@),
                                 ![g].sent_pose = seed_T_goal]
          /\ UNCHANGED <<leaseOwner, keepAlive>>
       \/ StepRaises(g)
    /\ UNCHANGED <<robotPower, rclpy_ok, robotGraph, diskGraph>>
    /\ UNCHANGED <<started_powered_on, powered_on, seed_T_goal>>
    /\ UNCHANGED <<graphVars, nodeVars, tp, cli, obsVars>>

\* What follows the feedback query: `return is_finished`, whatever it is; the
\* function has no loop.
once_after_feedback_loop(status) ==
    IF check_success(status) THEN "publish" ELSE "once_cmd"

once_after_feedback(status) == "publish"

\* time.sleep(.5); is_finished = self._check_success(nav_to_cmd_id); the flag
\* is cleared when it is True; return is_finished.
once_feedback(g) ==
    /\ ge[g].pc = "once_feedback"
    /\ \/ /\ \E status \in Statuses :
                /\ ge' = [ge EXCEPT ![g].pc = once_after_feedback(status),
                                    ![g].status = status,
                                    ![g].fbs = Counted(@),
                                    ![g].sent_pose = NoPose,
                                    ![g].nav_to_cmd_id = NoneHandle,
                                    ![g].passed_cmd_id = NoneHandle,
                                    ![g].last_cmd_id = ge[g].nav_to_cmd_id,
                                    ![g].step = IF check_success(status)
                                                THEN "True" ELSE "False"]
                /\ flag_nav' = IF check_success(status) THEN FALSE ELSE flag_nav
          /\ UNCHANGED <<leaseOwner, keepAlive>>
       \/ /\ StepRaises(g)
          /\ UNCHANGED flag_nav
    /\ UNCHANGED <<robotPower, rclpy_ok, robotGraph, diskGraph>>
    /\ UNCHANGED <<started_powered_on, powered_on, seed_T_goal>>
    /\ UNCHANGED <<graphVars, nodeVars, tp, cli, obsVars>>

\* goal_handle.publish_feedback(feedback_msg), once, after the step returned.
publish_feedback_twice(f) ==
    [f EXCEPT !.published = TRUE, !.fed = Counted(Counted(@))]

publish_feedback(f) == [f EXCEPT !.published = TRUE, !.fed = Counted(@)]

\* Back in execute_callback: publish_feedback, then `if result:` succeed() and a
\* result with success = True; otherwise the next iteration.
execute_publish(g) ==
    /\ ge[g].pc = "publish"
    /\ IF ge[g].step = "True"
       THEN /\ ge' = [ge EXCEPT ![g] =
                           GeReturn([publish_feedback(ge[g])
                                        EXCEPT !.handle = "succeeded"], "success")]
            /\ exit_with(g)
       ELSE /\ ge' = [ge EXCEPT ![g] = [publish_feedback(ge[g]) EXCEPT !.pc = "loop"]]
            /\ UNCHANGED <<leaseOwner, keepAlive>>
    /\ UNCHANGED <<robotPower, rclpy_ok, robotGraph, diskGraph>>
    /\ UNCHANGED <<gniVars, graphVars, nodeVars, tp, cli, obsVars>>

Next ==
    \/ RobotPowersUp
    \/ ExternalPowerChange
    \/ ExternalTakesLease
    \/ ExternalReturnsLease
    \/ Shutdown
    \/ \E g \in Goals :
          \/ goal_callback(g)
          \/ cancel_callback(g)
          \/ execute_acquire(g)
          \/ execute_loop_top(g)
          \/ once_enter(g)
          \/ toggle_power_check(g)
          \/ toggle_power_on(g)
          \/ toggle_power_poll(g)
          \/ toggle_power_sleep(g)
          \/ toggle_power_recheck(g)
          \/ toggle_power_raise(g)
          \/ once_powered(g)
          \/ once_power_raised(g)
          \/ once_command(g)
          \/ once_feedback(g)
          \/ execute_publish(g)

Spec == Init /\ [][Next]_vars

----------------------------------------------------------------------------
\* NavROS2SDK.run: before the node spins, the graph is uploaded, listed and the
\* robot localized to waypoint 'rp', all inside a lease block of run's own.
\* Callbacks are dispatched by the spin loop only.

InitNode ==
    /\ InitCommon
    /\ diskGraph = DiskGraph
    /\ current_edges = <<>>
    /\ node_pc = "start"

\* Leaving the `with LeaseKeepAlive(..., return_at_exit=True)` block of run.
run_exit_with_kept == UNCHANGED <<leaseOwner, keepAlive>>

run_exit_with ==
    /\ keepAlive' = keepAlive \ {Cli}
    /\ leaseOwner' = "free"

\* run enters its lease block; ResourceAlreadyClaimedError makes it return False.
sdk_run_acquire ==
    /\ node_pc = "start"
    /\ IF lease_acquired
       THEN /\ leaseOwner' = "node"
            /\ keepAlive' = keepAlive \cup {Cli}
            /\ node_pc' = "upload"
       ELSE /\ node_pc' = "failed"
            /\ UNCHANGED <<leaseOwner, keepAlive>>
    /\ UNCHANGED <<robotPower, rclpy_ok, robotGraph, diskGraph>>
    /\ UNCHANGED <<gniVars, graphVars, goal_pose, tp, cli, ge, obsVars>>

\* _command_dictionary['5'](): _upload_graph_and_snapshots is called.
sdk_run_upload ==
    /\ node_pc = "upload"
    /\ upload_graph_enter(cli)
    /\ node_pc' = "uploading"
    /\ UNCHANGED <<envVars, gniVars, goal_pose, tp, ge, keepAlive, obsVars>>

\* The upload is over: `except Exception: return False` leaves the lease block,
\* otherwise the listing is next.
sdk_run_uploaded ==
    /\ node_pc = "uploading"
    /\ cli.op = "none"
    /\ IF cli.exit = "exception"
       THEN /\ node_pc' = "failed"
            /\ run_exit_with
       ELSE /\ node_pc' = "list"
            /\ UNCHANGED <<leaseOwner, keepAlive>>
    /\ UNCHANGED <<robotPower, rclpy_ok, robotGraph, diskGraph>>
    /\ UNCHANGED <<gniVars, graphVars, goal_pose, tp, cli, ge, obsVars>>

\* _command_dictionary['4'](): _list_graph_waypoint_and_edge_ids.
sdk_run_list ==
    /\ node_pc = "list"
    /\ list_graph_enter(cli)
    /\ IF cli'.exit = "exception"
       THEN /\ node_pc' = "failed"
            /\ run_exit_with
       ELSE /\ node_pc' = "localize"
            /\ UNCHANGED <<leaseOwner, keepAlive>>
    /\ UNCHANGED <<robotPower, rclpy_ok, robotGraph, diskGraph>>
    /\ UNCHANGED <<gniVars, goal_pose, tp, ge, obsVars>>

\* _command_dictionary['3'](['rp']): _set_initial_localization_waypoint returns
\* at once when 'rp' names no waypoint, else get_robot_state and
\* set_localization, which may raise. Either way the lease block is left; after
\* a normal return 'Ready!' is printed and the node spins.
sdk_run_localize ==
    /\ node_pc = "localize"
    /\ \/ node_pc' = "spin"
       \/ /\ find_unique_waypoint_id("rp", current_graph,
                                     current_annotation_name_to_wp_id) # NoneId
          /\ node_pc' = "failed"
    /\ run_exit_with
    /\ UNCHANGED <<robotPower, rclpy_ok, robotGraph, diskGraph>>
    /\ UNCHANGED <<gniVars, graphVars, goal_pose, tp, cli, ge, obsVars>>

NextNode ==
    \/ sdk_run_acquire
    \/ sdk_run_upload
    \/ upload_graph_call
    \/ upload_waypoint_snapshot
    \/ upload_edge_snapshot
    \/ upload_graph_localized
    \/ sdk_run_uploaded
    \/ sdk_run_list
    \/ sdk_run_localize
    \/ Next

SpecNode == InitNode /\ [][NextNode]_vars

----------------------------------------------------------------------------
\* The command line interface: operations called one after another.

NextCli ==
    \/ RobotPowersUp
    \/ ExternalPowerChange
    \/ toggle_power_check(Cli)
    \/ toggle_power_on(Cli)
    \/ toggle_power_poll(Cli)
    \/ toggle_power_sleep(Cli)
    \/ toggle_power_off(Cli)
    \/ toggle_power_recheck(Cli)
    \/ toggle_power_raise(Cli)
    \/ CallTogglePower
    \/ TogglePowerReturned
    \/ TogglePowerRaised
    \/ CallUploadGraph
    \/ upload_graph_call
    \/ upload_waypoint_snapshot
    \/ upload_edge_snapshot
    \/ upload_graph_localized
    \/ CallClearGraph
    \/ CallListGraph
    \/ CallNavigateTo
    \/ navigate_to_powered
    \/ navigate_to_issue
    \/ navigate_to_feedback
    \/ CallNavigateRoute
    \/ navigate_route_powered
    \/ navigate_route_issue
    \/ navigate_route_feedback
    \/ navigate_route_cleanup
    \/ navigate_route_cleaned
    \/ CallNavigateToAnchor
    \/ navigate_to_anchor_powered
    \/ navigate_to_anchor_issue
    \/ navigate_to_anchor_feedback
    \/ CallRun
    \/ run_list
    \/ run_loop
    \/ run_visited
    \/ run_cleanup
    \/ run_cleaned
    \/ CallOnQuit

SpecCli == Init /\ [][NextCli]_vars

\* The same operations, the caller's thread never starved: a call in progress
\* takes its next step.
CliStep ==
    \/ toggle_power_step(Cli)
    \/ TogglePowerReturned
    \/ TogglePowerRaised
    \/ upload_graph_call
    \/ upload_waypoint_snapshot
    \/ upload_edge_snapshot
    \/ upload_graph_localized
    \/ navigate_to_powered \/ navigate_to_issue \/ navigate_to_feedback
    \/ navigate_route_powered \/ navigate_route_issue \/ navigate_route_feedback
    \/ navigate_route_cleanup \/ navigate_route_cleaned
    \/ navigate_to_anchor_powered \/ navigate_to_anchor_issue
    \/ navigate_to_anchor_feedback
    \/ run_list \/ run_loop \/ run_visited \/ run_cleanup \/ run_cleaned

FairSpecCli == Init /\ [][NextCli]_vars /\ WF_vars(CliStep)

----------------------------------------------------------------------------
\* The helper functions on their own: _match_edge, the edge loop of
\* _navigate_route and _check_success applied to arguments of every shape,
\* over an adjacency mapping of every shape.

WaypointIds == {"wa", "wb", "wc"}

\* One (to_waypoint, from_waypoint) entry put into a dict of lists, repeated
\* entries included.
RecordPair(adj, e) ==
    IF \E i \in 1..Len(adj) : adj[i].to = e.to
    THEN [i \in 1..Len(adj) |->
            IF adj[i].to = e.to
            THEN [adj[i] EXCEPT !.froms = Append(@, e.from)]
            ELSE adj[i]]
    ELSE Append(adj, [to |-> e.to, froms |-> <<e.from>>])

RECURSIVE AdjacencyOf(_, _)
AdjacencyOf(pairs, adj) ==
    IF pairs = <<>> THEN adj
    ELSE AdjacencyOf(Tail(pairs), RecordPair(adj, Head(pairs)))

Adjacencies ==
    {AdjacencyOf(q, <<>>) :
        q \in UNION {[1..n -> [to : WaypointIds, from : WaypointIds]] : n \in 0..MaxEdges}}

InitFn ==
    /\ InitCommon
    /\ robotPower = "OFF"
    /\ diskGraph = DiskGraph
    /\ current_edges \in Adjacencies
    /\ node_pc = "spin"

\* The frame after a helper returned: what it was given and what it gave back.
\* Each run applies one helper once to the state it starts in.
FnFrame(name, how) ==
    [CliEnter(cli, name, "none") EXCEPT !.op = "none", !.exit = how]

\* self._match_edge(self._current_edges, waypoint1, waypoint2)
match_edge_call ==
    /\ cli = CliIdle
    /\ \E waypoint1, waypoint2 \in WaypointIds :
          cli' = [FnFrame("match_edge", "returned") EXCEPT
                     !.waypoint_ids = <<waypoint1, waypoint2>>,
                     !.edge_ids_list = match_edge(current_edges, waypoint1, waypoint2)]
    /\ UNCHANGED <<envVars, gniVars, graphVars, nodeVars, tp, ge, keepAlive, obsVars>>

\* The edge loop of _navigate_route over resolved waypoint ids.
match_route_call ==
    /\ cli = CliIdle
    /\ \E waypoint_ids \in UNION {[1..n -> WaypointIds] : n \in 1..MaxRouteLen} :
          LET m == MatchRoute(waypoint_ids, 1, <<>>)
          IN  cli' = [FnFrame("match_route", IF m.found THEN "found" ELSE "no_edge")
                         EXCEPT !.waypoint_ids = waypoint_ids,
                                !.edge_ids_list = m.edge_ids_list,
                                !.failed_pair = m.pair]
    /\ UNCHANGED <<envVars, gniVars, graphVars, nodeVars, tp, ge, keepAlive, obsVars>>

\* self._check_success(command_id), also with the default and with None; the
\* status is what navigation_feedback answers when it is asked.
check_success_call ==
    /\ cli = CliIdle
    /\ \E command_id \in {DefaultHandle, NoneHandle} \cup CmdIds, status \in Statuses :
          cli' = IF check_success_queries(command_id)
                 THEN [FnFrame("check_success",
                               IF check_success(status) THEN "True" ELSE "False")
                          EXCEPT !.nav_to_cmd_id = command_id, !.fbQueries = 1,
                                 !.lastStatus = status]
                 ELSE [FnFrame("check_success", "False")
                          EXCEPT !.nav_to_cmd_id = command_id]
    /\ UNCHANGED <<envVars, gniVars, graphVars, nodeVars, tp, ge, keepAlive, obsVars>>

NextFn ==
    \/ match_edge_call
    \/ match_route_call
    \/ check_success_call

SpecFn == InitFn /\ [][NextFn]_vars

----------------------------------------------------------------------------
\* The graph store on its own: the operations that load, list and clear the
\* graph, called one after another, over maps that differ in their waypoints,
\* snapshots and anchors. The files under self._upload_filepath are read anew
\* by every _upload_graph_and_snapshots, so a map recorded again between two
\* loads is what the second load reads.

\* A map that carries one anchor.
AnchoredGraph ==
    [waypoints |-> << [id |-> "wa", name |-> "A", snapshot_id |-> "sa"],
                      [id |-> "wd", name |-> "D", snapshot_id |-> "sd"] >>,
     edges |-> << [from |-> "wa", to |-> "wd", snapshot_id |-> "ead"] >>,
     anchors |-> 1]

\* A map of another place, with two anchors.
RerecordedGraph ==
    [waypoints |-> << [id |-> "we", name |-> "E", snapshot_id |-> "se"] >>,
     edges |-> << >>,
     anchors |-> 2]

DiskGraphs == {DiskGraph, AnchoredGraph, RerecordedGraph}

InitStore ==
    /\ InitCommon
    /\ diskGraph \in DiskGraphs
    /\ current_edges = <<>>
    /\ node_pc = "spin"

\* Between two operations the map under self._upload_filepath is recorded again.
DiskReplaced ==
    /\ CliFree
    /\ diskGraph' \in DiskGraphs \ {diskGraph}
    /\ UNCHANGED <<robotPower, leaseOwner, rclpy_ok, robotGraph>>
    /\ UNCHANGED <<gniVars, graphVars, nodeVars, tp, cli, ge, keepAlive, obsVars>>

NextStore ==
    \/ DiskReplaced
    \/ CallUploadGraph
    \/ upload_graph_call
    \/ upload_waypoint_snapshot
    \/ upload_edge_snapshot
    \/ upload_graph_localized
    \/ CallClearGraph
    \/ CallListGraph

SpecStore == InitStore /\ [][NextStore]_vars

----------------------------------------------------------------------------
\* Properties of the command line operations (checked under SpecCli).

\* C1: in the poll loop of _navigate_to, as long as the loop runs every status
\* seen so far was non-terminal and commands and feedback queries go in step;
\* when the loop is left through is_finished, exactly k commands and k feedback
\* queries were made, the k-th status being the first terminal one.
C1_PollLoopCounts ==
    /\ (cli.op = "navigate_to" /\ cli.pc = "issue") =>
          /\ cli.navCmds = cli.fbQueries
          /\ cli.fbQueries > 0 => cli.lastStatus \notin TerminalStatuses
    /\ (cli.op = "navigate_to" /\ cli.pc = "feedback") =>
          /\ cli.navCmds = cli.fbQueries + 1
          /\ cli.fbQueries > 0 => cli.lastStatus \notin TerminalStatuses
    /\ (cli.last = "navigate_to" /\ cli.exit = "finished") =>
          /\ cli.fbQueries >= 1
          /\ cli.navCmds = cli.fbQueries
          /\ cli.lastStatus \in TerminalStatuses

\* [InProgress, InProgress, ReachedGoal]: three iterations, then the loop is left.
C1_Witness ==
    /\ cli.last = "navigate_to" /\ cli.exit = "finished"
    /\ cli.navCmds = 3 /\ cli.fbQueries = 3
    /\ cli.lastStatus = "REACHED_GOAL"

\* C2: a goal execution returns a result with success = True only when the
\* status that ended its last step was REACHED_GOAL, never when it was LOST,
\* STUCK or ROBOT_IMPAIRED.
C2_SuccessOnlyWhenReachedGoal ==
    \A g \in Goals :
        ge[g].result = "success" => ge[g].status = "REACHED_GOAL"

\* C3: a goal execution whose cancel request arrived before its first feedback
\* message returns the canceled result, never succeeds or fails, makes no
\* single-step call, and does not hold the lease once it has returned.
C3_CancelBeforeFeedback ==
    \A g \in Goals :
        (ge[g].pc = "returned" /\ ge[g].cancel \in {"before_execute", "before_feedback"})
            => /\ ge[g].result = "canceled"
               /\ ge[g].handle = "canceled"
               /\ ~ge[g].stepped
               /\ g \notin keepAlive

\* C4: execute_callback never has returned while its lease is still held,
\* whichever way it left: success, exception in the step, cancellation, or
\* rclpy.ok() turning False.
C4_LeaseReleasedOnExit ==
    /\ \A g \in Goals : ge[g].pc = "returned" => g \notin keepAlive
    /\ \A g \in Goals : ge[g].pc \in {"new", "accepted"} => g \notin keepAlive
    /\ keepAlive = {} => leaseOwner # "node"

C4_Witness ==
    \E g, h \in Goals :
        /\ ge[g].pc = "returned" /\ ge[g].result = "fell_through" /\ ge[g].stepped
        /\ ge[h].pc = "returned" /\ ge[h].result = "failure_exception"
        /\ leaseOwner = "free"

\* C5: at most one goal execution is inside the lease block, where the
\* navigation commands are issued, at any instant; an execution that found the
\* lease taken returned the failure result and never made a single-step call.
C5_OneCommander ==
    /\ Cardinality({g \in Goals : ge[g].pc \notin {"new", "accepted", "returned"}}) <= 1
    /\ Cardinality(keepAlive) <= 1
    /\ \A g \in Goals :
          ge[g].denied_by # "no"
              => ge[g].result = "failure_lease" /\ ~ge[g].stepped
                 /\ ge[g].nav_to_cmd_id = NoneHandle

C5_Witness ==
    \E g, h \in Goals :
        /\ ge[g].pc = "once_feedback" /\ ge[g].nav_to_cmd_id # NoneHandle
        /\ ge[h].denied_by = "node" /\ ge[h].pc = "returned"

\* C6: an execution whose lease acquisition failed has returned a result with
\* success = False after that single attempt, without a single-step call,
\* without feedback, and without a terminal transition of the goal handle.
C6_LeaseDeniedFailsFast ==
    \A g \in Goals :
        ge[g].denied_by # "no"
            => /\ ge[g].pc = "returned"
               /\ ge[g].result = "failure_lease"
               /\ ge[g].acquires = 1
               /\ ~ge[g].stepped
               /\ ~ge[g].published
               /\ ge[g].handle = "active"

C6_Witness ==
    \E g \in Goals :
        /\ ge[g].denied_by = "external"
        /\ ge[g].pc = "returned"
        /\ ge[g].result = "failure_lease"

\* C7: an execution in whose single-step call an exception was raised has
\* returned a result with success = False: it is not in the loop any more and
\* it never succeeded.
C7_StepExceptionFails ==
    \A g \in Goals :
        ge[g].raised
            => /\ ge[g].pc = "returned"
               /\ ge[g].result = "failure_exception"
               /\ ge[g].handle = "active"
               /\ g \notin keepAlive

C7_Witness ==
    \E g \in Goals :
        /\ ge[g].raised
        /\ ge[g].published
        /\ ge[g].result = "failure_exception"

\* C11: _match_edge gives the same answer for (A, B) and (B, A) over every
\* adjacency mapping: both None, or the same edge id.
C11_MatchEdgeSymmetric ==
    \A a, b \in WaypointIds :
        match_edge(current_edges, a, b) = match_edge(current_edges, b, a)

C11_Witness ==
    /\ cli.last = "match_edge"
    /\ cli.edge_ids_list # <<>>
    /\ cli.waypoint_ids[1] # cli.waypoint_ids[2]
    /\ \E i, j \in 1..Len(current_edges) :
          /\ i # j
          /\ current_edges[i].to \in Range(current_edges[j].froms)
          /\ current_edges[j].to \in Range(current_edges[i].froms)
          /\ {current_edges[i].to, current_edges[j].to} = Range(cli.waypoint_ids)

\* Some entry of self._current_edges joins a and b, in either direction.
EdgeRecorded(a, b) ==
    \E i \in 1..Len(current_edges) :
        \/ current_edges[i].to = a /\ b \in Range(current_edges[i].froms)
        \/ current_edges[i].to = b /\ a \in Range(current_edges[i].froms)

\* C12: the edge loop of _navigate_route succeeds exactly when every
\* consecutive pair of the resolved waypoints is joined by a recorded entry in
\* either direction, and then holds one edge id per pair, in order; when it
\* fails the pair it names is the first pair without an entry, and the edge
\* ids collected are those of the pairs before it.
C12_RouteBuild ==
    cli.last = "match_route" =>
        LET ids == cli.waypoint_ids
            pairs == 1..(Len(ids) - 1)
            bad == {k \in pairs : ~EdgeRecorded(ids[k], ids[k + 1])}
            joins(e, k) == {e.from_waypoint, e.to_waypoint} = {ids[k], ids[k + 1]}
        IN  /\ (cli.exit = "found") <=> (bad = {})
            /\ cli.exit \in {"found", "no_edge"}
            /\ cli.exit = "found" =>
                  /\ cli.failed_pair = <<>>
                  /\ Len(cli.edge_ids_list) = Len(ids) - 1
                  /\ \A k \in pairs : joins(cli.edge_ids_list[k], k)
            /\ cli.exit = "no_edge" =>
                  LET first == CHOOSE k \in bad : \A l \in bad : k <= l
                  IN  /\ cli.failed_pair = <<ids[first], ids[first + 1]>>
                      /\ Len(cli.edge_ids_list) = first - 1
                      /\ \A k \in 1..(first - 1) : joins(cli.edge_ids_list[k], k)

C12_Witness ==
    /\ cli.last = "match_route"
    /\ cli.exit = "no_edge"
    /\ Len(cli.waypoint_ids) = 3
    /\ ~EdgeRecorded(cli.waypoint_ids[1], cli.waypoint_ids[2])
    /\ ~EdgeRecorded(cli.waypoint_ids[2], cli.waypoint_ids[3])
    /\ cli.waypoint_ids[1] # cli.waypoint_ids[3]
    /\ cli.failed_pair = <<cli.waypoint_ids[1], cli.waypoint_ids[2]>>
    /\ current_edges # <<>>

\* C13: a _navigate_route call past its edge loop (power gate, route, commands,
\* cleanup) has every consecutive pair of its waypoints joined by an edge; a
\* call that found a pair without one has returned without toggle_power, without
\* build_route and without any navigate_route or feedback call, whatever pairs
\* before it matched.
C13_NoEdgeNoRemoteCall ==
    /\ cli.op = "navigate_route" =>
          \A k \in 1..(Len(cli.waypoint_ids) - 1) :
              EdgeRecorded(cli.waypoint_ids[k], cli.waypoint_ids[k + 1])
    /\ (cli.last = "navigate_route" /\ cli.failed_pair # <<>>) =>
          /\ cli.op = "none"
          /\ cli.exit = "no_edge"
          /\ ~cli.gated
          /\ ~cli.route_built
          /\ cli.navCmds = 0
          /\ cli.fbQueries = 0
          /\ tp[Cli] = TpIdle

C13_Witness ==
    /\ cli.last = "navigate_route"
    /\ cli.exit = "no_edge"
    /\ cli.failed_pair = <<"wc", "wa">>
    /\ ~cli.gated
    /\ current_edges # <<>>

\* C14: every navigation command of one operation after the first is given the
\* handle the previous command of that operation returned: in the continuous
\* operations the first command of a call is the only one given no handle, and
\* a single-step call for a goal is given the handle the previous single-step
\* call for that goal got back.
C14_HandleThreaded ==
    /\ cli.pc = "feedback" /\ cli.op \in {"navigate_to", "navigate_to_anchor"}
          => (cli.passed_cmd_id = NoneHandle <=> cli.navCmds = 1)
    /\ \A g \in Goals :
          ge[g].pc = "once_feedback" => ge[g].passed_cmd_id = ge[g].last_cmd_id

\* C15: _check_success given no handle (None, or the -1 that stands for "no
\* command") asks navigation_feedback nothing and returns the terminal answer,
\* the one that stops the poll loop.
C15_AbsentHandleTerminal ==
    (cli.last = "check_success" /\ cli.nav_to_cmd_id \in {NoneHandle, DefaultHandle})
        => cli.fbQueries = 0 /\ cli.exit = "True"

\* C16: when the call issuing a navigation command fails in _navigate_to,
\* _navigate_to_anchor or _navigate_route, the operation is over (no further
\* command, no feedback query) and it has returned normally, the failure
\* reported, not left by an exception.
C16_IssueFailureReturns ==
    cli.issue_failed => /\ cli.op = "none" /\ cli.pc = "none"
                        /\ cli.exit = "response_error"

\* s is an initial part of t.
IsPrefix(s, t) == Len(s) <= Len(t) /\ s = SubSeq(t, 1, Len(s))

\* C17: the snapshots _upload_graph_and_snapshots has sent are, in order, the
\* ids upload_graph reported as unknown: the waypoint snapshots first, the edge
\* snapshots once those are through, and when it returns the calls made are
\* exactly the reported ids, one call per id; a snapshot that was not reported
\* is never sent.
C17_LazyUpload ==
    /\ IsPrefix(cli.sent_waypoint_snapshots, cli.unknown_waypoint_snapshot_ids)
    /\ IsPrefix(cli.sent_edge_snapshots, cli.unknown_edge_snapshot_ids)
    /\ cli.sent_edge_snapshots # <<>>
          => cli.sent_waypoint_snapshots = cli.unknown_waypoint_snapshot_ids
    /\ (cli.last = "upload" /\ cli.exit = "uploaded")
          => /\ cli.sent_waypoint_snapshots = cli.unknown_waypoint_snapshot_ids
             /\ cli.sent_edge_snapshots = cli.unknown_edge_snapshot_ids

C17_Witness ==
    /\ cli.last = "upload" /\ cli.exit = "uploaded"
    /\ Len(current_graph[1].waypoints) = 3
    /\ cli.unknown_waypoint_snapshot_ids = <<"sa", "sc">>
    /\ cli.sent_waypoint_snapshots = <<"sa", "sc">>
    /\ "eab" \in current_edge_snapshots
    /\ cli.sent_edge_snapshots = <<>>

\* C18: the generate_new_anchoring flag upload_graph was given is true when the
\* graph that was loaded has no anchor and false when it has one or more.
C18_AnchoringFlag ==
    (cli.last = "upload" /\ (cli.pc = "send" \/ cli.exit = "uploaded"))
        => cli.generate_new_anchoring = <<current_graph[1].anchors = 0>>

C18_Witness ==
    /\ cli.last = "upload" /\ cli.exit = "uploaded"
    /\ current_graph[1].anchors = 2
    /\ cli.generate_new_anchoring = <<FALSE>>

\* C19: when _clear_graph has returned, the robot holds no graph and neither
\* does the interface: _current_graph is back to None and the annotation and
\* edge mappings derived from it are empty.
C19_ClearInvalidatesCache ==
    (cli.last = "clear" /\ cli.exit = "cleared")
        => /\ robotGraph = EmptyGraph
           /\ current_graph = <<>>
           /\ current_annotation_name_to_wp_id = <<>>
           /\ current_edges = <<>>

\* C20: when _upload_graph_and_snapshots has returned, the two snapshot dicts
\* hold the snapshots of the graph it loaded and no others: the waypoint
\* snapshots of its waypoints, the edge snapshots of its edges that have one.
C20_LoadReplaces ==
    (cli.last = "upload" /\ cli.exit = "uploaded")
        => /\ current_waypoint_snapshots = Range(WaypointSnapshotIds(current_graph[1]))
           /\ current_edge_snapshots = Range(EdgeSnapshotIds(current_graph[1]))

\* C21: a call of _navigate_to_anchor_once that got as far as its poll iteration
\* makes one localization read and one navigate_to_anchor command, then one
\* feedback query, and returns the classification of the status that query
\* reported; it never goes round a second time.
C21_OneIterationPerCall ==
    \A g \in Goals :
        /\ ge[g].pc = "once_feedback"
              => ge[g].reads = 1 /\ ge[g].cmds = 1 /\ ge[g].fbs = 0
        /\ (ge[g].pc = "publish" /\ ge[g].step # "None")
              => /\ ge[g].reads = 1 /\ ge[g].cmds = 1 /\ ge[g].fbs = 1
                 /\ ge[g].step = IF check_success(ge[g].status) THEN "True" ELSE "False"
        /\ ge[g].pc = "once_cmd" => ge[g].cmds = 0 /\ ge[g].fbs = 0

C21_Witness ==
    \E g \in Goals :
        /\ ge[g].pc = "publish" /\ ge[g].step = "False"
        /\ ge[g].published
        /\ ge[g].cmds = 1 /\ ge[g].fbs = 1

\* C22: a goal whose single-step call found the robot not localized (the pose
\* [x, y, yaw] carries no z) has issued no power command and no navigation
\* command in that call, is given no further single-step call, and does not
\* end with a result that reports success.
C22_NotLocalizedAborts ==
    \A g \in Goals :
        ge[g].unlocalized
            => /\ ge[g].pc \in {"publish", "loop", "returned"}
               /\ ge[g].cmds = 0
               /\ tp[g] = TpIdle
               /\ ge[g].result # "success"

\* C23: a goal execution that is at the top of its loop with a cancel request
\* pending goes nowhere but to its return; a single-step call is only ever
\* started with no cancel request pending, so a request raised during a step
\* waits for that one step at most; and an execution that has reported the
\* cancellation does nothing more: no step, no feedback.
C23_CancelStopsSteps ==
    [][\A g \in Goals :
          /\ (ge[g].pc = "loop" /\ ge[g].cancel # "no" /\ ge'[g] # ge[g])
                => ge'[g].pc = "returned" /\ ge'[g].published = ge[g].published
          /\ (ge'[g].pc = "once_entry" /\ ge[g].pc # "once_entry")
                => ge[g].cancel = "no"
          /\ ge[g].handle = "canceled" => ge'[g] = ge[g]]_vars

C23_Witness ==
    \E g \in Goals :
        /\ ge[g].pc = "returned" /\ ge[g].result = "canceled"
        /\ ge[g].cancel = "later"
        /\ ge[g].stepped /\ ge[g].published

\* C24: in one iteration of execute_callback at most one feedback message is
\* published: none while the single-step call is still running, one once it
\* has returned; an execution that reported success published the feedback of
\* its last iteration first, and an iteration whose step raised published none.
C24_FeedbackOncePerIteration ==
    \A g \in Goals :
        /\ ge[g].fed <= 1
        /\ ge[g].pc \in {"once_entry", "once_power", "once_cmd", "once_feedback", "publish"}
              => ge[g].fed = 0
        /\ (ge[g].pc = "loop" /\ ge[g].stepped) => ge[g].fed = 1
        /\ ge[g].result = "success" => ge[g].fed = 1
        /\ ge[g].result = "failure_exception" => ge[g].fed = 0

C24_Witness ==
    \E g, h \in Goals :
        /\ ge[g].result = "success" /\ ge[g].fed = 1
        /\ ge[h].result = "failure_exception" /\ ge[h].published /\ ge[h].fed = 0

\* C25: a navigation command is only issued by an operation whose
\* toggle_power(True) returned True: in the command line operations, and in the
\* single-step calls made for a goal.
C25_PowerGateBeforeCommand ==
    /\ cli.navCmds > 0 => cli.gate_ok
    /\ cli.exit = "power_failed" => cli.navCmds = 0
    /\ \A g \in Goals : ge[g].pc = "once_feedback" => ge[g].gate_ok

\* C26: whenever the node is idle (run's setup is over, one way or the other,
\* and no goal execution is between its acquisition and its return) the lease
\* is not held by the node and no keep-alive of it is running.
C26_NoLeaseWhenIdle ==
    (/\ node_pc \in {"spin", "failed"}
     /\ \A g \in Goals : ge[g].pc \in {"new", "accepted", "returned"})
        => leaseOwner # "node" /\ keepAlive = {}

C26_Witness ==
    /\ node_pc = "spin"
    /\ current_graph # <<>> /\ current_edges # <<>>
    /\ \E g, h \in Goals :
          /\ ge[g].pc = "returned" /\ ge[g].result = "success"
          /\ ge[h].pc = "accepted"
    /\ leaseOwner = "free"

\* C27: _navigate_to and _navigate_route go past the resolution of their tokens
\* only with a waypoint id for every one of them; a call that got none for some
\* token has returned without toggle_power, without a navigation command or a
\* feedback query and, for a route, without looking for an edge.
C27_UnresolvedNeverReachesRobot ==
    /\ (cli.op = "navigate_to" /\ cli.pc # "none") => cli.destination_waypoint # NoneId
    /\ (cli.op = "navigate_route" /\ cli.pc # "none")
          => \A i \in 1..Len(cli.waypoint_ids) : cli.waypoint_ids[i] # NoneId
    /\ (cli.last \in {"navigate_to", "navigate_route"} /\ cli.exit = "unresolved")
          => /\ cli.op = "none"
             /\ ~cli.gated /\ ~cli.gate_ok /\ ~cli.route_built
             /\ cli.failed_pair = <<>>
             /\ cli.navCmds = 0 /\ cli.fbQueries = 0
             /\ tp[Cli] = TpIdle

C27_Witness ==
    /\ cli.last = "navigate_route" /\ cli.exit = "unresolved"
    /\ current_graph # <<>> /\ current_edges # <<>>
    /\ robotPower = "OFF"

\* C28: self._flag_nav is False whenever no goal execution is inside its loop,
\* so that the first step of the next goal parses its pose and runs the power
\* gate; and the navigate_to_anchor command of a step carries the pose the
\* step was called with, not one stored for an earlier goal.
C28_CommandCarriesGoalPose ==
    /\ (\A g \in Goals : ge[g].pc \in {"new", "accepted", "returned"}) => ~flag_nav
    /\ \A g \in Goals :
          ge[g].pc = "once_feedback" => ge[g].sent_pose = ge[g].arg

\* C29: the pose an execution hands to its single-step call is the pose of the
\* goal request that created the execution.
C29_StepGetsOwnRequest ==
    \A g \in Goals :
        ge[g].pc \in {"once_entry", "once_power", "once_cmd", "once_feedback"}
            => ge[g].arg = ge[g].request

\* C30: a _navigate_route call that entered its route loop on a robot that was
\* off at construction has, once it is left on whatever path, either called
\* toggle_power(False) or found self._powered_on False.
C30_RoutePowersOffOnEveryExit ==
    (/\ cli.last = "navigate_route" /\ cli.op = "none"
     /\ cli.route_built
     /\ ~started_powered_on)
        => cli.cleanup_called \/ ~powered_on

\* C31: an execute_callback that acquired the lease and has returned gave back
\* a Navigation.Result: the one with success = True, the one with success =
\* False, or the default one of the cancel path; never nothing at all, also
\* when its loop ended because rclpy.ok() turned False.
C31_ResultOnEveryExit ==
    \A g \in Goals :
        (ge[g].pc = "returned" /\ ge[g].result # "failure_lease")
            => ge[g].result \in {"success", "failure_exception", "canceled"}

\* C8: a toggle_power(True) that issued the power-on command leaves its
\* confirmation loop (returns or raises).
C8_EnsureOnTerminates ==
    (tp[Cli].pc = "poll") ~> (tp[Cli].pc \notin {"poll", "sleep"})

\* C9: toggle_power(True) right after a toggle_power(True) that found the robot
\* off and returned True observes On, issues no command and returns True; a
\* call issues one power-on command at most, and only when it observed Off with
\* should_power_on; it issues the safe power-off only when it observed On
\* without should_power_on, and nothing when the robot is already as asked.
C9_EnsureOnIdempotent ==
    LET f == tp[Cli]
    IN  /\ (f.follows_on /\ f.should_power_on) =>
              /\ f.pc = "done" /\ f.ret
              /\ f.is_powered_on /\ f.issued = "none" /\ f.on_cmds = 0
        /\ f.issued = "on" => f.should_power_on /\ ~f.is_powered_on /\ f.on_cmds = 1
        /\ f.issued = "off" => ~f.should_power_on /\ f.is_powered_on
        /\ f.pc = "power_on" => f.should_power_on /\ ~f.is_powered_on
        /\ f.pc = "power_off" => ~f.should_power_on /\ f.is_powered_on
        /\ (f.pc = "done" /\ f.should_power_on /\ ~f.is_powered_on) => f.on_cmds = 1
        /\ (f.pc = "done" /\ f.should_power_on = f.is_powered_on) =>
              f.issued = "none" /\ f.ret = f.is_powered_on

\* The second of two toggle_power(True) calls in a row has returned.
C9_Witness ==
    /\ tp[Cli].pc = "done"
    /\ tp[Cli].follows_on /\ tp[Cli].should_power_on
    /\ ~started_powered_on

\* C10: when the robot was on at construction, none of the end-of-operation
\* cleanups (_navigate_route, run, _on_quit) issues a safe power-off.
C10_NoCleanupOffWhenStartedOn ==
    started_powered_on => ~cleanupOff

\* A route navigation finished on a robot that was on from the start, and the
\* cleanup left it on.
C10_Witness ==
    /\ started_powered_on /\ powered_on
    /\ cli.last = "navigate_route" /\ cli.exit = "finished"

====
